---- MODULE Spec2Model ----
(***************************************************************************)
(* Model of the invoice extraction pipeline of src/parser.py:              *)
(* extract_text_from_pdf, pdf_to_base64_image and                          *)
(* parse_invoice_with_claude (mode decision, model call, fence stripping,  *)
(* JSON decoding, error conversion).                                       *)
(*                                                                         *)
(* Text is a sequence of symbols.  A symbol is one character ("{", "\n",   *)
(* ..., with "BT" standing for the backtick character) or an atomic word   *)
(* that contains no backtick ("json", "null", "A1", ...).  Python values   *)
(* are records [t, v] tagged with their type.                              *)
(***************************************************************************)
EXTENDS Integers, Sequences, FiniteSets, TLC

\* ---------------------------------------------------------------- bounds
\* Longest reply of the Model Client, counted in chunks (see Chunks).
MaxChunks == 4
\* Number of bytes of a Document.
DocLen == 1

\* ------------------------------------------------------ program constants
\* src/parser.py:138  len(extracted_text) > 100
TextThreshold == 100

\* ------------------------------------------------------------ Python str
Min(S) == CHOOSE x \in S : \A y \in S : x <= y

Rep(n, c) == [i \in 1..n |-> c]

\* str.strip() / JSON whitespace
IsSpace(c) == c \in {" ", "\n"}

RECURSIVE LStrip(_)
LStrip(s) ==
    IF s # <<>> /\ IsSpace(Head(s)) THEN LStrip(Tail(s)) ELSE s

RECURSIVE RStrip(_)
RStrip(s) ==
    IF s # <<>> /\ IsSpace(s[Len(s)]) THEN RStrip(SubSeq(s, 1, Len(s) - 1)) ELSE s

\* s.strip()
Strip(s) == RStrip(LStrip(s))

\* s.find(sep, from): index of the leftmost occurrence of sep in s that
\* starts at or after from (1-based), 0 if there is none.
RECURSIVE Find(_, _, _)
Find(s, sep, from) ==
    IF from + Len(sep) - 1 > Len(s) THEN 0
    ELSE IF SubSeq(s, from, from + Len(sep) - 1) = sep THEN from
    ELSE Find(s, sep, from + 1)

\* sep in s
Contains(s, sep) == Find(s, sep, 1) # 0

\* s.split(sep) resuming one symbol after the start of an occurrence instead
\* of after its end
RECURSIVE Split_KeepSep(_, _)
Split_KeepSep(s, sep) ==
    LET i == Find(s, sep, 1) IN
    IF i = 0 THEN <<s>>
    ELSE <<SubSeq(s, 1, i - 1)>> \o Split_KeepSep(SubSeq(s, i + 1, Len(s)), sep)

\* s.split(sep): the parts between the leftmost non-overlapping occurrences.
RECURSIVE Split(_, _)
Split(s, sep) ==
    LET i == Find(s, sep, 1) IN
    IF i = 0 THEN <<s>>
    ELSE <<SubSeq(s, 1, i - 1)>> \o Split(SubSeq(s, i + Len(sep), Len(s)), sep)

\* the bare fence (three backticks) and the language-tagged fence
Fence == <<"BT", "BT", "BT">>
JsonFence == <<"BT", "BT", "BT", "json">>

\* --------------------------------------------------------- Python values
PyNone == [t |-> "null", v |-> <<>>]
PyNum(n) == [t |-> "num", v |-> <<n>>]
PyStr(s) == [t |-> "str", v |-> s]
PyList(xs) == [t |-> "list", v |-> xs]
\* a dict is the sequence of its <<key, value>> items, in insertion order
PyDict(items) == [t |-> "dict", v |-> items]

\* key in d  (d a dict)
HasKey(d, k) == \E i \in 1..Len(d.v) : d.v[i][1] = k

\* d[k] = val on the item list of a dict: a repeated key keeps its place and
\* takes the last value.
DictSet(items, k, val) ==
    IF \E i \in 1..Len(items) : items[i][1] = k
    THEN [i \in 1..Len(items) |-> IF items[i][1] = k THEN <<k, val>> ELSE items[i]]
    ELSE Append(items, <<k, val>>)

\* ------------------------------------------------------------ json.loads
Quote == "\""

DecodeFail == [ok |-> FALSE, val |-> PyNone, next |-> 0]
DecodeOk(val, next) == [ok |-> TRUE, val |-> val, next |-> next]

\* index of the first symbol at or after i that is not whitespace
RECURSIVE SkipWs(_, _)
SkipWs(s, i) ==
    IF i <= Len(s) /\ IsSpace(s[i]) THEN SkipWs(s, i + 1) ELSE i

\* a string literal starting at the quote s[i]; a raw line break inside a
\* string is an invalid control character
ParseString(s, i) ==
    LET j == Find(s, <<Quote>>, i + 1) IN
    IF j = 0 THEN DecodeFail
    ELSE IF \E k \in (i + 1)..(j - 1) : s[k] = "\n" THEN DecodeFail
    ELSE DecodeOk(PyStr(SubSeq(s, i + 1, j - 1)), j + 1)

RECURSIVE ParseValue(_, _)
RECURSIVE ParseElements(_, _, _)
RECURSIVE ParseMembers(_, _, _)

\* the elements of a non-empty array, s[i] being the start of an element
ParseElements(s, i, acc) ==
    LET r == ParseValue(s, i)
        j == SkipWs(s, r.next)
    IN  IF ~r.ok \/ j > Len(s) THEN DecodeFail
        ELSE IF s[j] = "," THEN ParseElements(s, SkipWs(s, j + 1), Append(acc, r.val))
        ELSE IF s[j] = "]" THEN DecodeOk(PyList(Append(acc, r.val)), j + 1)
        ELSE DecodeFail

\* the members of a non-empty object, s[i] being the start of a key
ParseMembers(s, i, items) ==
    IF i > Len(s) \/ s[i] # Quote THEN DecodeFail
    ELSE
    LET k == ParseString(s, i)
        c == SkipWs(s, k.next)
        r == ParseValue(s, SkipWs(s, c + 1))
        j == SkipWs(s, r.next)
    IN  IF ~k.ok \/ c > Len(s) THEN DecodeFail
        ELSE IF s[c] # ":" THEN DecodeFail
        ELSE IF ~r.ok \/ j > Len(s) THEN DecodeFail
        ELSE IF s[j] = ","
             THEN ParseMembers(s, SkipWs(s, j + 1), DictSet(items, k.val.v, r.val))
        ELSE IF s[j] = "}"
             THEN DecodeOk(PyDict(DictSet(items, k.val.v, r.val)), j + 1)
        ELSE DecodeFail

\* one JSON value starting at s[i]
ParseValue(s, i) ==
    IF i > Len(s) THEN DecodeFail
    ELSE IF s[i] = "null" THEN DecodeOk(PyNone, i + 1)
    ELSE IF s[i] = "1" THEN DecodeOk(PyNum(1), i + 1)
    ELSE IF s[i] = Quote THEN ParseString(s, i)
    ELSE IF s[i] = "["
         THEN LET j == SkipWs(s, i + 1) IN
              IF j <= Len(s) /\ s[j] = "]" THEN DecodeOk(PyList(<<>>), j + 1)
              ELSE ParseElements(s, j, <<>>)
    ELSE IF s[i] = "{"
         THEN LET j == SkipWs(s, i + 1) IN
              IF j <= Len(s) /\ s[j] = "}" THEN DecodeOk(PyDict(<<>>), j + 1)
              ELSE ParseMembers(s, j, <<>>)
    ELSE DecodeFail

\* json.loads(s): one value, surrounded by whitespace only; ok = FALSE stands
\* for json.JSONDecodeError
Loads(s) ==
    LET r == ParseValue(s, SkipWs(s, 1)) IN
    IF r.ok /\ SkipWs(s, r.next) > Len(s) THEN r ELSE DecodeFail

\* ------------------------------------------------------------- Documents
\* A page of the text layer: its text, or ok = FALSE when reading it raises.
Page(txt) == [ok |-> TRUE, text |-> txt]
BadPage == [ok |-> FALSE, text |-> <<>>]

\* Text layers: none, exactly at the threshold, one above it, two pages that
\* exceed it only once joined, at the threshold once trimmed, and a layer
\* whose second page cannot be read.
TextLayers ==
    { <<>>,
      <<Page(Rep(TextThreshold, "x"))>>,
      <<Page(Rep(TextThreshold + 1, "x"))>>,
      <<Page(Rep(TextThreshold \div 2, "x")), Page(Rep(TextThreshold \div 2, "x"))>>,
      <<Page(<<" ">> \o Rep(TextThreshold, "x") \o <<" ">>)>>,
      <<Page(Rep(TextThreshold + 1, "x")), BadPage>> }

\* Document: its bytes, its text layer, and whether its structure is corrupt
\* (the PDF reader raises on it).
Documents ==
    { [bytes |-> [i \in 1..DocLen |-> i], pages |-> pg, corrupt |-> FALSE] : pg \in TextLayers }
    \cup { [bytes |-> [i \in 1..DocLen |-> i], pages |-> <<>>, corrupt |-> TRUE] }

\* the loop of extract_text_from_pdf over reader.pages
RECURSIVE ConcatPages(_)
ConcatPages(pages) ==
    IF pages = <<>> THEN <<>>
    ELSE (IF Head(pages).text # <<>> THEN Head(pages).text \o <<"\n">> ELSE <<>>)
         \o ConcatPages(Tail(pages))

\* extract_text_from_pdf: the trimmed text of all pages, "" on any exception
extract_text_from_pdf(d) ==
    IF d.corrupt \/ \E i \in 1..Len(d.pages) : ~d.pages[i].ok THEN <<>>
    ELSE Strip(ConcatPages(d.pages))

\* pdf_file.read(): the bytes from the read cursor to the end
FileRead(bytes, cur) == SubSeq(bytes, cur + 1, Len(bytes))

\* the base64 text of the PNG rendering of page one of the given bytes
Base64Png(bytes) == PyStr(<<"base64:png:">> \o bytes)

\* not v
Falsy(v) == v.t = "null" \/ v.v = <<>>

\* ---------------------------------------------------------------- prompt
\* the fixed extraction prompt, one symbol
extraction_prompt == <<"PROMPT">>

NoImage == <<>>

\* the text-mode message list (lines 140-145)
TextMessages(txt) ==
    << [role |-> "user", kind |-> "str",
        text |-> extraction_prompt \o <<"\n", "\n", "INVOICE TEXT:", "\n">> \o txt,
        image |-> NoImage] >>

\* the image-mode message list (lines 153-171)
ImageMessages(b64) ==
    << [role |-> "user", kind |-> "parts",
        text |-> extraction_prompt \o <<"\n", "\n", "See the invoice image below:">>,
        image |-> << [type |-> "base64", media_type |-> "image/png", data |-> b64.v] >>] >>

\* the decision of line 138 with the boundary moved up by one
UseTextMode_OffByOne(txt) == Len(txt) > TextThreshold + 1

\* the decision of line 138 taken at the threshold itself
UseTextMode_AtThreshold(txt) == Len(txt) >= TextThreshold

\* the decision of line 138
UseTextMode(txt) == Len(txt) > TextThreshold

\* ------------------------------------------------------- Model Client I/O
\* Pieces a reply of the model is built from: a fence, a tagged fence, the
\* language tag alone, a line break, a single backtick, and three JSON
\* documents (null, {"invoice_number":"A1"}, {"error":1,"invoice_number":1}).
Chunks ==
    << Fence,
       JsonFence,
       <<"json">>,
       <<"\n">>,
       <<"BT">>,
       <<"null">>,
       <<"{", Quote, "invoice_number", Quote, ":", Quote, "A1", Quote, "}">>,
       <<"{", Quote, "error", Quote, ":", "1", ",",
         Quote, "invoice_number", Quote, ":", "1", "}">> >>

RECURSIVE Flatten(_)
Flatten(cs) == IF cs = <<>> THEN <<>> ELSE Chunks[Head(cs)] \o Flatten(Tail(cs))

\* every reply text of at most MaxChunks chunks
Replies ==
    { Flatten(cs) : cs \in UNION { [1..k -> 1..Len(Chunks)] : k \in 0..MaxChunks } }

\* response.content: no part, a first part without text, a first text part
Responses ==
    { <<>>, << [hasText |-> FALSE, text |-> <<>>] >> }
    \cup { << [hasText |-> TRUE, text |-> r] >> : r \in Replies }

\* ------------------------------------------------------- results, handlers
Unbound == [t |-> "unbound", v |-> <<>>]
NoResult == [t |-> "none", v |-> <<>>]

\* line 151
NoSignalError ==
    PyDict(<< << <<"error">>,
                 PyStr(<<"Could not process PDF - neither text nor image extraction worked">>) >> >>)

\* except Exception (lines 196-197)
OnException(msg) ==
    [escaped |-> "none",
     value |-> PyDict(<< << <<"error">>, PyStr(<<"API call failed: ", msg>>) >> >>)]

\* except json.JSONDecodeError (lines 194-195); rt is the local response_text
\* at the time the handler runs; reading it while unbound raises out of the
\* handler
OnJSONDecodeError(rt) ==
    IF rt = Unbound
    THEN [escaped |-> "UnboundLocalError", value |-> NoResult]
    ELSE [escaped |-> "none",
          value |-> PyDict(<< << <<"error">>,
                                 PyStr(<<"Failed to parse Claude's response as JSON: ",
                                         "JSONDecodeError">>) >>,
                              << <<"raw_response">>, rt >> >>)]

\* lines 185-188 with the two checks in the other order
StripFence_BareFirst(text) ==
    IF Contains(text, Fence) THEN Split(Split(text, Fence)[2], Fence)[1]
    ELSE IF Contains(text, JsonFence) THEN Split(Split(text, JsonFence)[2], Fence)[1]
    ELSE text

\* lines 185-188
StripFence(text) ==
    IF Contains(text, JsonFence) THEN Split(Split(text, JsonFence)[2], Fence)[1]
    ELSE IF Contains(text, Fence) THEN Split(Split(text, Fence)[2], Fence)[1]
    ELSE text

\* ----------------------------------------------------------------- state
VARIABLES
    doc,             \* the uploaded Document
    cursor,          \* read cursor of the file object, 0..Len(doc.bytes)
    pc,              \* position in parse_invoice_with_claude
    extracted_text,  \* local extracted_text
    pdf_bytes,       \* bytes the Image Renderer read and rasterized
    base64_image,    \* local base64_image
    messages,        \* local messages
    response,        \* response.content of the Model Client
    response_text,   \* local response_text
    result,          \* returned value
    escaped,         \* exception that left the function, "none" if none
    client_outcome,  \* "none", or how client.messages.create ended: "returned", "raised"
    imageCalls,      \* calls of pdf_to_base64_image
    clientCalls      \* calls of client.messages.create

vars == <<doc, cursor, pc, extracted_text, pdf_bytes, base64_image, messages,
          response, response_text, result, escaped, client_outcome, imageCalls,
          clientCalls>>

Init ==
    /\ doc \in Documents
    /\ cursor = 0
    /\ pc = "extract"
    /\ extracted_text = <<>>
    /\ pdf_bytes = <<>>
    /\ base64_image = PyNone
    /\ messages = <<>>
    /\ response = <<>>
    /\ response_text = Unbound
    /\ result = NoResult
    /\ escaped = "none"
    /\ client_outcome = "none"
    /\ imageCalls = 0
    /\ clientCalls = 0

\* leave the function with the outcome h of a handler
Leave(h) ==
    /\ result' = h.value
    /\ escaped' = h.escaped
    /\ pc' = IF h.escaped = "none" THEN "done" ELSE "raised"

\* line 86: the Text Extractor runs on the file object and leaves its read
\* cursor wherever the PDF reader stopped
ExtractText ==
    /\ pc = "extract"
    /\ extracted_text' = extract_text_from_pdf(doc)
    /\ \E c \in 0..Len(doc.bytes) : cursor' = c
    /\ pc' = "decide"
    /\ UNCHANGED <<client_outcome, doc, pdf_bytes, base64_image, messages, response, response_text,
                   result, escaped, imageCalls, clientCalls>>

\* lines 138-145
BuildTextRequest ==
    /\ pc = "decide"
    /\ UseTextMode(extracted_text)
    /\ messages' = TextMessages(extracted_text)
    /\ pc' = "call"
    /\ UNCHANGED <<client_outcome, doc, cursor, extracted_text, pdf_bytes, base64_image, response,
                   response_text, result, escaped, imageCalls, clientCalls>>

\* line 148 with pdf_to_base64_image (lines 55-71): read from the cursor,
\* seek(0), rasterize page one; the rasterizer raises, yields no page, or
\* yields a page (never from no bytes at all)
RenderImage ==
    /\ pc = "decide"
    /\ ~UseTextMode(extracted_text)
    /\ imageCalls' = imageCalls + 1
    /\ pdf_bytes' = FileRead(doc.bytes, cursor)
    /\ cursor' = 0
    /\ \E outcome \in {"raise", "empty", "image"} :
          /\ outcome = "image" => pdf_bytes' # <<>>
          /\ base64_image' = IF outcome = "image" THEN Base64Png(pdf_bytes') ELSE PyNone
    /\ pc' = "fallback"
    /\ UNCHANGED <<client_outcome, doc, extracted_text, messages, response, response_text, result,
                   escaped, clientCalls>>

\* lines 150-151
RejectUnreadable ==
    /\ pc = "fallback"
    /\ Falsy(base64_image)
    /\ Leave([escaped |-> "none", value |-> NoSignalError])
    /\ UNCHANGED <<client_outcome, doc, cursor, extracted_text, pdf_bytes, base64_image, messages,
                   response, response_text, imageCalls, clientCalls>>

\* lines 153-171
BuildImageRequest ==
    /\ pc = "fallback"
    /\ ~Falsy(base64_image)
    /\ messages' = ImageMessages(base64_image)
    /\ pc' = "call"
    /\ UNCHANGED <<client_outcome, doc, cursor, extracted_text, pdf_bytes, base64_image, response,
                   response_text, result, escaped, imageCalls, clientCalls>>

\* lines 175-179, the call returns
CallClientReturns ==
    /\ pc = "call"
    /\ clientCalls' = clientCalls + 1
    /\ client_outcome' = "returned"
    /\ \E r \in Responses : response' = r
    /\ pc' = "read"
    /\ UNCHANGED <<doc, cursor, extracted_text, pdf_bytes, base64_image, messages,
                   response_text, result, escaped, imageCalls>>

\* lines 175-179, the call raises: a transport error, or a JSON decode error
\* of the client's own
CallClientRaises ==
    /\ pc = "call"
    /\ clientCalls' = clientCalls + 1
    /\ client_outcome' = "raised"
    /\ \E exc \in {"APIConnectionError", "JSONDecodeError"} :
          Leave(IF exc = "JSONDecodeError"
                THEN OnJSONDecodeError(response_text)
                ELSE OnException("Connection error."))
    /\ UNCHANGED <<doc, cursor, extracted_text, pdf_bytes, base64_image, messages,
                   response, response_text, imageCalls>>

\* line 182: response.content[0].text
ReadReply ==
    /\ pc = "read"
    /\ IF response = <<>>
       THEN /\ Leave(OnException("list index out of range"))
            /\ UNCHANGED response_text
       ELSE IF ~response[1].hasText
       THEN /\ Leave(OnException("object has no attribute 'text'"))
            /\ UNCHANGED response_text
       ELSE /\ response_text' = PyStr(response[1].text)
            /\ pc' = "strip"
            /\ UNCHANGED <<result, escaped>>
    /\ UNCHANGED <<client_outcome, doc, cursor, extracted_text, pdf_bytes, base64_image, messages,
                   response, imageCalls, clientCalls>>

\* lines 185-188
StripFences ==
    /\ pc = "strip"
    /\ response_text' = PyStr(StripFence(response_text.v))
    /\ pc' = "decode"
    /\ UNCHANGED <<client_outcome, doc, cursor, extracted_text, pdf_bytes, base64_image, messages,
                   response, result, escaped, imageCalls, clientCalls>>

\* lines 191-195
DecodeReply ==
    /\ pc = "decode"
    /\ LET r == Loads(Strip(response_text.v)) IN
       Leave(IF r.ok THEN [escaped |-> "none", value |-> r.val]
             ELSE OnJSONDecodeError(response_text))
    /\ UNCHANGED <<client_outcome, doc, cursor, extracted_text, pdf_bytes, base64_image, messages,
                   response, response_text, imageCalls, clientCalls>>

Next ==
    \/ ExtractText
    \/ BuildTextRequest
    \/ RenderImage
    \/ RejectUnreadable
    \/ BuildImageRequest
    \/ CallClientReturns
    \/ CallClientRaises
    \/ ReadReply
    \/ StripFences
    \/ DecodeReply

Spec == Init /\ [][Next]_vars

\* ================================================================ claims
\* the value of key k in the dict d
Get(d, k) == d.v[CHOOSE i \in 1..Len(d.v) : d.v[i][1] = k][2]
Keys(d) == { d.v[i][1] : i \in 1..Len(d.v) }
Decided == pc \notin {"extract", "decide"}

\* C1: whenever the trimmed extracted text is longer than 100 characters, the
\* request built is the text-mode one (a single user message whose content is
\* the prompt followed by the extracted text, without image part) and the
\* Image Renderer has not been invoked.
C1_TextModeAboveThreshold ==
    (Decided /\ Len(extracted_text) > 100) =>
        /\ imageCalls = 0
        /\ pdf_bytes = <<>>
        /\ Len(messages) = 1
        /\ messages[1].role = "user"
        /\ messages[1].kind = "str"
        /\ messages[1].image = <<>>
        /\ messages[1].text =
              <<"PROMPT", "\n", "\n", "INVOICE TEXT:", "\n">> \o extracted_text

\* C1 witness: a two-page document whose pages exceed the threshold only once
\* joined went through text mode to a decoded reply.
C1_Witness ==
    /\ pc = "done"
    /\ Len(doc.pages) = 2
    /\ Len(extracted_text) = 101
    /\ messages # <<>>
    /\ clientCalls = 1
    /\ imageCalls = 0
    /\ result.t = "dict"

\* C2: whenever the extracted text has at most 100 characters and no image
\* was obtained, the Model Client is never invoked and the invocation ends by
\* returning the dict whose only key is "error" with the no-signal message.
C2_NoSignalError ==
    (Decided /\ Len(extracted_text) <= 100 /\ Falsy(base64_image)) =>
        /\ clientCalls = 0
        /\ client_outcome = "none"
        /\ imageCalls = 1
        /\ \/ pc = "fallback"
           \/ /\ pc = "done"
              /\ escaped = "none"
              /\ result.t = "dict"
              /\ Len(result.v) = 1
              /\ result.v[1][1] = <<"error">>
              /\ result.v[1][2] =
                    PyStr(<<"Could not process PDF - neither text nor image extraction worked">>)

\* C2 witness: a document with exactly 100 characters of text and no
\* renderable page returned the no-signal error.
C2_Witness ==
    /\ pc = "done"
    /\ Len(extracted_text) = 100
    /\ imageCalls = 1
    /\ Falsy(base64_image)
    /\ clientCalls = 0
    /\ Keys(result) = {<<"error">>}

\* the reply text as received from the Model Client
Reply == response[1].text
ReplyRead == client_outcome = "returned" /\ response # <<>> /\ response[1].hasText
IsCallFailed(r) ==
    /\ r.t = "dict"
    /\ Keys(r) = {<<"error">>}
    /\ Get(r, <<"error">>).t = "str"
    /\ Len(Get(r, <<"error">>).v) = 2
    /\ Get(r, <<"error">>).v[1] = "API call failed: "
IsMalformedReply(r) ==
    /\ r.t = "dict"
    /\ Keys(r) = {<<"error">>, <<"raw_response">>}
    /\ Get(r, <<"error">>).t = "str"
    /\ Get(r, <<"error">>).v[1] = "Failed to parse Claude's response as JSON: "

\* C3: whenever a reply that was read cannot be decoded, the returned error
\* carries a raw_response equal to the reply text exactly as the Model Client
\* returned it.
C3_RawResponseUntouched ==
    (pc = "done" /\ ReplyRead /\ ~Loads(Strip(response_text.v)).ok) =>
        /\ result.t = "dict"
        /\ <<"raw_response">> \in Keys(result)
        /\ Get(result, <<"raw_response">>) = PyStr(Reply)

\* C5: every returned value is either an InvoiceRecord (a dict without an
\* "error" key) or the error variant (a dict with "error", optionally
\* "raw_response", and nothing else), never both and never neither.
IsInvoiceRecord(r) == r.t = "dict" /\ <<"error">> \notin Keys(r)
IsErrorVariant(r) ==
    /\ r.t = "dict"
    /\ <<"error">> \in Keys(r)
    /\ Keys(r) \subseteq {<<"error">>, <<"raw_response">>}
C5_ExactlyOneVariant ==
    pc = "done" => (IsInvoiceRecord(result) \/ IsErrorVariant(result))

\* C6: no exception leaves parse_invoice_with_claude.
C6_NothingEscapes == escaped = "none" /\ pc # "raised"

\* C7: if the Model Client call itself fails, the invocation returns the
\* "call failed" error with the underlying message and no raw_response; and
\* the Model Client is invoked at most once per invocation.
C7_CallFailedOnce ==
    /\ clientCalls <= 1
    /\ client_outcome = "raised" =>
          /\ pc = "done"
          /\ IsCallFailed(result)
          /\ Get(result, <<"error">>).v[2] = "Connection error."

\* C9: whenever the Image Renderer has run, the bytes it rasterized are the
\* whole Document and the read cursor is back at position 0.
C9_RendersWholeDocument ==
    imageCalls >= 1 => (pdf_bytes = doc.bytes /\ cursor = 0)

\* C10: the "call failed" error is returned only if the Model Client call
\* itself failed; once the call returned a reply, every later failure is
\* reported as a malformed-reply error.
C10_CallFailedOnlyOnCallFailure ==
    pc = "done" =>
        /\ IsCallFailed(result) => client_outcome = "raised"
        /\ (client_outcome = "returned" /\ ~ReplyRead) => IsMalformedReply(result)
        /\ (ReplyRead /\ ~Loads(Strip(response_text.v)).ok) => IsMalformedReply(result)

\* ---- fence stripping, stated with occurrence sets instead of split
Stripped == pc \in {"decode", "done"} /\ ReplyRead
\* the positions at which sep occurs in r
Occ(r, sep) == { i \in 1..(Len(r) - Len(sep) + 1) : SubSeq(r, i, i + Len(sep) - 1) = sep }
From(S, k) == { i \in S : i >= k }
\* what the Normalizer hands to the decoder for the reply r
Content(r) == Strip(StripFence(r))
\* the value returned for a reply whose stripped text is txt
Outcome(txt) ==
    IF Loads(Strip(txt)).ok THEN Loads(Strip(txt)).val
    ELSE PyDict(<< << <<"error">>,
                      PyStr(<<"Failed to parse Claude's response as JSON: ",
                              "JSONDecodeError">>) >>,
                   << <<"raw_response">>, PyStr(txt) >> >>)

\* the content a reply of the shape tagged fence + C + fence, or
\* fence + C + fence, wraps; the reply itself when it has neither shape
Inner(r) ==
    IF Len(r) >= 7 /\ SubSeq(r, 1, 4) = JsonFence /\ SubSeq(r, Len(r) - 2, Len(r)) = Fence
    THEN SubSeq(r, 5, Len(r) - 3)
    ELSE IF Len(r) >= 6 /\ SubSeq(r, 1, 3) = Fence /\ SubSeq(r, Len(r) - 2, Len(r)) = Fence
    THEN SubSeq(r, 4, Len(r) - 3)
    ELSE r
NoFence(c) == Occ(c, Fence) = {}
NoBacktick(c) == \A i \in 1..Len(c) : c[i] # "BT"
\* c can stand directly against the fences
Tight(c) == NoBacktick(c) /\ (c = <<>> \/ c[1] # "json")
RoundTrip(c, w) ==
    /\ Content(JsonFence \o w \o c \o w \o Fence) = Content(c)
    /\ Content(Fence \o w \o c \o w \o Fence) = Content(c)

FirstOpenEnd(r) ==
    LET i == Min(Occ(r, Fence)) IN
    IF i + 3 <= Len(r) /\ r[i + 3] = "json" THEN i + 4 ELSE i + 3
FirstClose(r) == Min(From(Occ(r, Fence), FirstOpenEnd(r)))
\* r has more than one fenced block
SeveralBlocks(r) ==
    /\ Occ(r, Fence) # {}
    /\ From(Occ(r, Fence), FirstOpenEnd(r)) # {}
    /\ From(Occ(r, Fence), FirstClose(r) + 3) # {}
FirstBlockContent(r) == SubSeq(r, FirstOpenEnd(r), FirstClose(r) - 1)

\* the text after the first occurrence of open, cut at the next occurrence of
\* open if any, and then at the first fence it still contains
CutAfter(r, open) ==
    LET i == Min(Occ(r, open))
        nxt == From(Occ(r, open), i + Len(open))
        seg == SubSeq(r, i + Len(open), IF nxt = {} THEN Len(r) ELSE Min(nxt) - 1)
    IN  IF Occ(seg, Fence) = {} THEN seg ELSE SubSeq(seg, 1, Min(Occ(seg, Fence)) - 1)
\* the block chosen: after the first tagged fence if the reply has one
\* anywhere, after the first bare fence otherwise
ChosenContent(r) ==
    IF Occ(r, JsonFence) # {} THEN CutAfter(r, JsonFence) ELSE CutAfter(r, Fence)

\* C8 as stated: of a reply with more than one fenced block the Normalizer
\* takes the content of the first block, tagged or bare, and decodes it.
C8_TakesFirstBlock ==
    (Stripped /\ SeveralBlocks(Reply)) =>
        /\ response_text.v = FirstBlockContent(Reply)
        /\ pc = "done" => result = Outcome(FirstBlockContent(Reply))

\* C8 amended: of a reply with more than one fenced block the Normalizer takes
\* the text after the first language-tagged fence when the reply has a tagged
\* fence anywhere, even behind an earlier bare block, and the text after the
\* first bare fence only otherwise; the text is cut at the next tagged fence
\* (tagged case) and at the first fence it contains, then trimmed and decoded.
C8_TakesFirstTaggedBlockElseFirstBare ==
    (Stripped /\ SeveralBlocks(Reply)) =>
        /\ response_text.v = ChosenContent(Reply)
        /\ pc = "done" => result = Outcome(ChosenContent(Reply))

\* C8 witness: an empty bare block, then a tagged block holding null; the
\* tagged block was decoded.
C8_Witness ==
    /\ pc = "done"
    /\ ReplyRead
    /\ Reply = Fence \o Fence \o JsonFence \o <<"null">>
    /\ SeveralBlocks(Reply)
    /\ FirstBlockContent(Reply) = <<>>
    /\ result = PyNone

====
